---- MODULE Spec2Model ----
(***************************************************************************)
(* Password-reset token lifecycle, login with session cache,              *)
(* registration, JWT issue and verification, email verification and the  *)
(* contacts API of the contacts/user-management backend.                  *)
(*                                                                         *)
(* Time is measured in seconds; the clock advances in steps of            *)
(* TickSeconds.  The relational store holds the committed rows; a request *)
(* works on a session of its own and publishes its changes at commit.     *)
(* A Python runtime error that escapes a handler (AttributeError,         *)
(* TypeError, a driver error) is the framework's 500 response.            *)
(***************************************************************************)
EXTENDS Integers, Sequences, FiniteSets, TLC

\* ------------------------------------------------------------------ bounds
MaxTicks == 3          \* the clock stops after this many ticks
TickSeconds == 1800    \* seconds per clock tick
MaxTokens == 1         \* reset tokens issued in one run
MaxOutstanding == 2    \* reset tokens issued in one run of one-at-a-time requests
MaxContacts == 2       \* contact rows inserted in one run
MaxNewUsers == 1       \* user rows inserted in one run

\* --------------------------------------------------------- program constants
RESET_TOKEN_TTL_SECONDS == 3600        \* timedelta(hours=1)
CACHE_TTL_SECONDS == 3600              \* redis.set(..., ex=3600)
JWT_EXPIRATION_SECONDS == 3600         \* Settings.JWT_EXPIRATION_SECONDS
JWT_REFRESH_EXPIRATION_SECONDS == 7200 \* refresh tokens live longer than access tokens
EMAIL_TOKEN_TTL_SECONDS == 604800      \* timedelta(days=7)
JWT_SECRET == "JWT_SECRET"             \* Settings.JWT_SECRET, known to the process alone
SPARE_BITS == 2                        \* HS256: 43 characters of 6 bits hold 256 bits and 2 more

SECONDS_PER_DAY == 86400               \* date.today() changes once a day
UPCOMING_DAYS == 7                     \* get_upcoming_birthdays(days: int = 7)

HTTP_200 == 200
HTTP_201 == 201
HTTP_204 == 204
HTTP_400 == 400
HTTP_401 == 401
HTTP_404 == 404
HTTP_409 == 409
HTTP_422 == 422
DAYS_PER_YEAR == 365                   \* a birthday comes round once a year
HTTP_500 == 500

\* ------------------------------------------------------------------ domains
Passwords == {"pw1", "pw2", "pw3"}
ResetPasswords == {"pw2", "pw3"}
\* Users u1/e1 and u2/e2 are in the store; requests name the first of them or
\* someone who is not registered.
Emails == {"e1", "e3"}
Usernames == {"u1", "u3"}
CacheKeys == {"u1", "u2", "u3"}
StoredEmails == {"e1", "e2", "e3"}
UserIds == {1, 2}
TokenIds == 1..MaxTokens
OutstandingIds == 1..MaxOutstanding
IssuableIds == TokenIds \cup OutstandingIds
ReqIds == {1, 2}
\* What Gravatar(email).get_image() does: it returns a URL or it raises.
Gravatars == {"https://gravatar/avatar", "raises"}
\* Dates are days counted from the day the clock starts.  An optional date is
\* a set: {} for None, {d} for the date d.  The birth dates the requests name:
\* three days ahead of today's date a year ago, today, the last day of the
\* default window, and the day after it.
BirthDates == {{}, {3 - DAYS_PER_YEAR}, {0}, {UPCOMING_DAYS}, {UPCOMING_DAYS + 1}}
ContactEmails == {"mia@x", "ann@x"}
ContactIds == 1..MaxContacts
\* The bodies a ContactCreate accepts: first_name, last_name and email are
\* required, phone_number and birth_date may be left unset.
ContactFields == {"first_name", "last_name", "email", "phone_number", "birth_date"}
ContactBodies ==
    {[set |-> {"first_name", "last_name", "email"} \cup opt,
      first_name |-> fn, last_name |-> "Lee", email |-> e,
      phone_number |-> IF "phone_number" \in opt THEN "555" ELSE "None",
      birth_date |-> IF "birth_date" \in opt THEN bd ELSE {}] :
        opt \in {{}, {"phone_number", "birth_date"}, {"birth_date"}},
        fn \in {"Mia"}, e \in ContactEmails, bd \in BirthDates}
\* A "sub" claim that is absent, and one that is null.
NoSub == "-"
NullSub == "None"
\* The subjects a token is made for, the optional TTLs it is asked with, and the
\* keys a MAC can be computed with.
Subjects == Usernames \cup {NoSub, NullSub}
ExpiresDeltas == {{}, {0}, {TickSeconds}}
Keys == {JWT_SECRET, "guess"}

VARIABLES
    now,           \* wall clock, seconds
    users,         \* table users: id -> row
    reset_tokens,  \* table password_reset_tokens: set of rows
    issued,        \* number of reset tokens generated so far (uuid4 never repeats)
    cache,         \* redis: key "user:{username}" -> entry
    req,           \* confirm requests in flight: request -> its session
    scheduled,     \* background tasks added so far
    redeemed,      \* history: token -> new passwords of its successful confirms, in order
    held,          \* the JWT a client has in hand, and how it came by it
    contacts,      \* table contacts: set of rows
    contact_seq,   \* the last id the contacts table has handed out
    reg,           \* register requests in flight: request -> what it has checked
    last           \* history: the last response sent

vars == <<now, users, reset_tokens, issued, cache, req, scheduled, redeemed, held,
          contacts, contact_seq, reg, last>>

\* --------------------------------------------------------- credential hasher
\* A string that can be hashed: a plaintext has rounds = 0, a bcrypt digest of
\* it rounds = 1, a digest of the digest rounds = 2.
Plain(p) == [pw |-> p, rounds |-> 0]

get_password_hash(s) == [pw |-> s.pw, rounds |-> s.rounds + 1]

verify_password(plain_password, hashed_password) ==
    /\ hashed_password.pw = plain_password.pw
    /\ hashed_password.rounds = plain_password.rounds + 1

\* ------------------------------------------------------------ user repository
NoUser == 0

get_user_by_email(email) ==
    IF \E id \in DOMAIN users : users[id].email = email
    THEN CHOOSE id \in DOMAIN users : users[id].email = email
    ELSE NoUser

get_user_by_username(username) ==
    IF \E id \in DOMAIN users : users[id].username = username
    THEN CHOOSE id \in DOMAIN users : users[id].username = username
    ELSE NoUser

\* ------------------------------------------------------- password-reset store
NoRow == [token |-> 0, user_id |-> NoUser, expires_at |-> 0]

\* PasswordResetToken.is_expired(): the token is dead once now is past expires_at.
is_expired(row) == now > row.expires_at

\* The rows `select ... where token == token` finds (token is unique).
select_token(token) == {row \in reset_tokens : row.token = token}

verify_token_no_expiry(token) ==
    IF select_token(token) = {} THEN NoRow
    ELSE CHOOSE row \in select_token(token) : TRUE

verify_token(token) ==
    LET found == select_token(token)
        reset_token == IF found = {} THEN NoRow ELSE CHOOSE row \in found : TRUE
    IN  IF reset_token = NoRow \/ is_expired(reset_token) THEN NoRow ELSE reset_token

\* expires_at as the module computes it once, when it is imported (the process
\* starts at time 0).
expires_at_on_import == 0 + RESET_TOKEN_TTL_SECONDS

create_reset_token_expiry_on_import(user_id) ==
    [token |-> issued + 1,
     user_id |-> user_id,
     expires_at |-> expires_at_on_import]

\* create_reset_token: a fresh uuid4, and an expires_at computed in the call.
create_reset_token(user_id) ==
    [token |-> issued + 1,
     user_id |-> user_id,
     expires_at |-> now + RESET_TOKEN_TTL_SECONDS]

\* ------------------------------------------------------------------ responses
NoToken == [sub |-> "-", exp |-> 0]

\* The signature segment of a JWT: base64url text of the MAC.  The 32 bytes of
\* an HS256 MAC fill 43 characters less two bits; `spare` is the value of those
\* two bits in the last character (an encoder writes 0).
NoSignature == [mac |-> [key |-> "-", of |-> NoToken], spare |-> 0]

\* A compact JWT: the claims segment and the signature segment.
NoJwt == [payload |-> NoToken, signature |-> NoSignature]

\* No token in hand.
NoHeld == [jwt |-> NoJwt, kind |-> "-", issued_at |-> 0, expires_delta |-> {}]

\* A register request that has not started.
NotRegistering == [pc |-> "idle", username |-> "-", email |-> "-", password |-> "-"]

NoBody == [keys |-> {}, access_token |-> NoToken, refresh_token |-> NoToken]

NoResponse ==
    [op |-> "-", email |-> "-", username |-> "-", token |-> 0, password |-> "-",
     redis |-> "-", cache_hit |-> FALSE, status |-> 0, detail |-> "-", body |-> NoBody,
     presented |-> NoHeld, contact_id |-> 0, returned |-> <<>>, supplied |-> {},
     pre_hashed |-> FALSE]

\* HTTPException(status_code, detail), or a handler's return value.
Reply(op, status, detail) ==
    [NoResponse EXCEPT !.op = op, !.status = status, !.detail = detail]

\* An exception no handler catches: the framework answers 500.
Raised(op, exception) == Reply(op, HTTP_500, exception)

\* ------------------------------------------------------------ reset: request
\* POST /password-reset/request
request_password_reset_silent(email) ==
    /\ LET user == get_user_by_email(email) IN
       IF user = NoUser
       THEN /\ scheduled' = scheduled \cup
                   {[task |-> "send_email", args |-> <<email, 0>>]}
            /\ last' = [Reply("request_password_reset", HTTP_200,
                                    "Password reset instructions have been sent to your email.")
                              EXCEPT !.email = email]
            /\ UNCHANGED <<reset_tokens, issued>>
       ELSE LET row == create_reset_token(user) IN
            /\ reset_tokens' = reset_tokens \cup {row}
            /\ issued' = issued + 1
            /\ scheduled' = scheduled \cup
                   {[task |-> "send_email", args |-> <<users[user].email, row.token>>]}
            /\ last' = [Reply("request_password_reset", HTTP_200,
                                    "Password reset instructions have been sent to your email.")
                              EXCEPT !.email = email]
    /\ UNCHANGED <<now, users, cache, req, redeemed, held, contacts, contact_seq, reg>>

request_password_reset(email) ==
    /\ LET user == get_user_by_email(email) IN
       IF user = NoUser
       THEN /\ last' = [Reply("request_password_reset", HTTP_404, "User not found")
                              EXCEPT !.email = email]
            /\ UNCHANGED <<reset_tokens, issued, scheduled>>
       ELSE LET row == create_reset_token(user) IN
            /\ reset_tokens' = reset_tokens \cup {row}
            /\ issued' = issued + 1
            /\ scheduled' = scheduled \cup
                   {[task |-> "send_email", args |-> <<users[user].email, row.token>>]}
            /\ last' = [Reply("request_password_reset", HTTP_200,
                                    "Password reset instructions have been sent to your email.")
                              EXCEPT !.email = email]
    /\ UNCHANGED <<now, users, cache, req, redeemed, held, contacts, contact_seq, reg>>

\* ------------------------------------------------------------ reset: confirm
Idle == [pc |-> "idle", token |-> 0, new_password |-> "-", row |-> NoRow]

\* POST /password-reset/confirm, up to the first write: verify_token, then the
\* user is loaded, its hash replaced and the token marked deleted in the
\* request's own session.  Nothing is sent to the store before commit
\* (autoflush is off).
confirm_verify_tells_expiry(r, token, new_password) ==
    /\ req[r].pc = "idle"
    /\ LET reset_token == verify_token(token) IN
       IF reset_token = NoRow
       THEN /\ last' = [(IF select_token(token) = {}
                         THEN Reply("confirm_password_reset", HTTP_400, "Invalid or expired token")
                         ELSE Reply("confirm_password_reset", HTTP_400, "Token expired"))
                              EXCEPT !.token = token, !.password = new_password]
            /\ UNCHANGED req
       ELSE /\ req' = [req EXCEPT ![r] = [pc |-> "loaded", token |-> token,
                                          new_password |-> new_password,
                                          row |-> reset_token]]
            /\ UNCHANGED last
    /\ UNCHANGED <<now, users, reset_tokens, issued, cache, scheduled, redeemed, held, contacts, contact_seq, reg>>

confirm_verify(r, token, new_password) ==
    /\ req[r].pc = "idle"
    /\ LET reset_token == verify_token(token) IN
       IF reset_token = NoRow
       THEN /\ last' = [Reply("confirm_password_reset", HTTP_400, "Invalid or expired token")
                              EXCEPT !.token = token, !.password = new_password]
            /\ UNCHANGED req
       ELSE /\ req' = [req EXCEPT ![r] = [pc |-> "loaded", token |-> token,
                                          new_password |-> new_password,
                                          row |-> reset_token]]
            /\ UNCHANGED last
    /\ UNCHANGED <<now, users, reset_tokens, issued, cache, scheduled, redeemed, held, contacts, contact_seq, reg>>

\* reset_password past verify_token, when its commit succeeds: one transaction
\* that updates the user's hash and deletes the token row.  A DELETE that
\* matches no row is a warning, not an error.
reset_password_keep_token(s) ==
    [users |-> [users EXCEPT ![s.row.user_id].hashed_password =
                    get_password_hash(Plain(s.new_password))],
     reset_tokens |-> reset_tokens]

reset_password_drops_all(s) ==
    [users |-> [users EXCEPT ![s.row.user_id].hashed_password =
                    get_password_hash(Plain(s.new_password))],
     reset_tokens |-> {row \in reset_tokens : row.user_id # s.row.user_id}]

reset_password(s) ==
    [users |-> [users EXCEPT ![s.row.user_id].hashed_password =
                    get_password_hash(Plain(s.new_password))],
     reset_tokens |-> reset_tokens \ {s.row}]

\* What a commit (or the delete before it) that fails leaves in the store: the
\* session is rolled back and closed, none of its changes is published.
rollback_password_kept(s) ==
    [users |-> [users EXCEPT ![s.row.user_id].hashed_password =
                    get_password_hash(Plain(s.new_password))],
     reset_tokens |-> reset_tokens]

rollback(s) == [users |-> users, reset_tokens |-> reset_tokens]

\* POST /password-reset/confirm, the rest: delete and commit, then the response.
confirm_commit(r, persisted) ==
    /\ req[r].pc = "loaded"
    /\ LET s == req[r]
           db == IF persisted THEN reset_password(s) ELSE rollback(s)
       IN  /\ users' = db.users
           /\ reset_tokens' = db.reset_tokens
           /\ redeemed' = IF persisted
                          THEN [redeemed EXCEPT ![s.token] = Append(@, s.new_password)]
                          ELSE redeemed
           /\ last' = [(IF persisted
                        THEN Reply("confirm_password_reset", HTTP_200, "Password successfully reset")
                        ELSE Raised("confirm_password_reset", "SQLAlchemyError"))
                       EXCEPT !.token = s.token, !.password = s.new_password]
    /\ req' = [req EXCEPT ![r] = Idle]
    /\ UNCHANGED <<now, issued, cache, scheduled, held, contacts, contact_seq, reg>>

\* -------------------------------------------------------------- token signer
\* The claims create_access_token signs for data = {"sub": sub}.  The optional
\* expires_delta is a set: {} for None, {n} for n seconds.  `if expires_delta:`
\* is false for None and for 0, and then the configured TTL is used.
access_token_claims(sub, expires_delta) ==
    [sub |-> sub,
     exp |-> IF expires_delta # {} /\ expires_delta # {0}
             THEN now + (CHOOSE n \in expires_delta : TRUE)
             ELSE now + JWT_EXPIRATION_SECONDS]

\* create_access_token(data={"sub": sub}): the claims of the token.
create_access_token(sub) == access_token_claims(sub, {})

\* Same shape as an access token, longer TTL.
create_refresh_token(sub) == [sub |-> sub, exp |-> now + JWT_REFRESH_EXPIRATION_SECONDS]

\* response_model=Token: the response keeps the fields the schema declares.
TokenFields == {"access_token", "token_type"}

Token(d) == [d EXCEPT !.keys = d.keys \cap TokenFields,
                      !.refresh_token = IF "refresh_token" \in TokenFields
                                        THEN d.refresh_token ELSE NoToken]

\* The MAC of a claims segment under a key.
hmac_sign(key, payload) == [key |-> key, of |-> payload]

\* base64url text of a MAC as an encoder writes it, and the bytes a decoder
\* reads from such text: the spare bits of the last character are dropped.
base64url_encode(mac) == [mac |-> mac, spare |-> 0]

base64url_decode(segment) == segment.mac

\* jwt.encode(claims, settings.JWT_SECRET, algorithm)
jwt_encode(payload) ==
    [payload |-> payload,
     signature |-> base64url_encode(hmac_sign(JWT_SECRET, payload))]

\* create_email_token({"sub": email}): a week to live, and the time of issue.
create_email_token(email) ==
    jwt_encode([sub |-> email, iat |-> now, exp |-> now + EMAIL_TOKEN_TTL_SECONDS])

\* jwt.decode(token, settings.JWT_SECRET, algorithms): the claims, or the
\* JWTError raised.  The signature is compared as bytes; a token is expired
\* once its exp is before the clock.
jwt_decode_unverified(token) ==
    IF token.payload.exp < now
    THEN [error |-> "ExpiredSignatureError", payload |-> NoToken]
    ELSE [error |-> "-", payload |-> token.payload]

jwt_decode(token) ==
    IF base64url_decode(token.signature) # hmac_sign(JWT_SECRET, token.payload)
    THEN [error |-> "JWTError", payload |-> NoToken]
    ELSE IF token.payload.exp < now
    THEN [error |-> "ExpiredSignatureError", payload |-> NoToken]
    ELSE [error |-> "-", payload |-> token.payload]

\* -------------------------------------------------------------- session cache
NoEntry == [present |-> FALSE, username |-> "-",
            hashed_password |-> get_password_hash(Plain("-")), expires_at |-> 0]

\* redis.get: the entry under "user:{username}", unless its TTL has run out.
redis_get(username) ==
    IF cache[username].present /\ now < cache[username].expires_at
    THEN cache[username] ELSE NoEntry

\* redis.set(key, value, ex): the entry, with its TTL counted from now.
redis_set(user, ex) ==
    [cache EXCEPT ![user.username] =
        [present |-> TRUE, username |-> user.username,
         hashed_password |-> user.hashed_password, expires_at |-> now + ex]]

\* The dependency that hands the handler its client.  `redis` is assigned in
\* the function, so it is a local name there, and reading it on the right-hand
\* side of its own first assignment raises UnboundLocalError.
get_redis == "UnboundLocalError"

\* The clients a handler can be given: one that answers, one whose get fails,
\* one whose set fails.
RedisClients == {"up", "get_fails", "set_fails"}

\* ---------------------------------------------------------------------- login
\* The handler's outcome: the response, and the cache after it.
login_user(email, password, redis) ==
    LET user == get_user_by_email(email)
        op == "login_user"
        In(resp) == [resp EXCEPT !.email = email, !.password = password, !.redis = redis]
    IN
    IF user = NoUser
    THEN \* user.username on None
         [response |-> In(Raised(op, "AttributeError")), cache |-> cache]
    ELSE IF redis = "get_fails"
    THEN [response |-> In(Raised(op, "RedisError")), cache |-> cache]
    ELSE LET cached_user == redis_get(users[user].username) IN
    IF ~cached_user.present
    THEN \* user["hashed_password"] on the ORM object
         [response |-> In(Raised(op, "TypeError")), cache |-> cache]
    ELSE IF ~verify_password(Plain(password), cached_user.hashed_password)
    THEN \* detail: "Неправильний логін або пароль"
         [response |-> [In(Reply(op, HTTP_401, "Incorrect login or password"))
                           EXCEPT !.cache_hit = TRUE],
          cache |-> cache]
    ELSE IF redis = "set_fails"
    THEN [response |-> [In(Raised(op, "RedisError")) EXCEPT !.cache_hit = TRUE],
          cache |-> cache]
    ELSE [response |->
              [In(Reply(op, HTTP_200, "-")) EXCEPT
                  !.cache_hit = TRUE,
                  !.username = cached_user.username,
                  !.body = Token([keys |-> {"access_token", "refresh_token", "token_type"},
                                  access_token |-> create_access_token(cached_user.username),
                                  refresh_token |-> create_refresh_token(cached_user.username)])],
          cache |-> redis_set(cached_user, CACHE_TTL_SECONDS)]

\* POST /auth/login with the handler given its client directly (a dependency
\* override).
login_with_client(email, password, redis) ==
    /\ last' = login_user(email, password, redis).response
    /\ cache' = login_user(email, password, redis).cache
    /\ UNCHANGED <<now, users, reset_tokens, issued, req, scheduled, redeemed, held, contacts, contact_seq, reg>>

\* POST /auth/login through the application: get_redis is resolved first.
login_request(email, password) ==
    /\ last' = IF get_redis \in RedisClients
               THEN [login_user(email, password, get_redis).response
                        EXCEPT !.op = "login_request"]
               ELSE [Raised("login_request", get_redis)
                        EXCEPT !.email = email, !.password = password]
    /\ cache' = IF get_redis \in RedisClients
                THEN login_user(email, password, get_redis).cache
                ELSE cache
    /\ UNCHANGED <<now, users, reset_tokens, issued, req, scheduled, redeemed, held, contacts, contact_seq, reg>>

\* ------------------------------------------------------------------- register
\* UserRepository.create_user(user): the password of the body is hashed and
\* the row added and committed.  users.email and users.username are unique: a
\* commit that would break that raises IntegrityError and the session is
\* rolled back.
UserRepository_create_user(user) ==
    LET hashed_password == get_password_hash(user.password)
        db_user == [id |-> Len(users) + 1, username |-> user.username,
                    email |-> user.email, hashed_password |-> hashed_password,
                    avatar |-> "None", is_verified |-> FALSE]
    IN  IF \E id \in DOMAIN users :
              users[id].email = user.email \/ users[id].username = user.username
        THEN [raised |-> "IntegrityError", users |-> users]
        ELSE [raised |-> "-", users |-> Append(users, db_user)]

\* UserService.create_user: the avatar is looked up, an error of the lookup is
\* swallowed, and the repository is called as create_user(body, avatar);
\* UserRepository.create_user takes the body alone, so a call with two
\* arguments raises TypeError before anything is added.
UserService_create_user(body, gravatar) ==
    LET avatar == IF gravatar = "raises" THEN "None" ELSE gravatar
        args == <<body, avatar>>
    IN  IF Len(args) # Len(<<"user">>)
        THEN [raised |-> "TypeError", users |-> users]
        ELSE UserRepository_create_user(args[1])

\* POST /auth/register/
register_user_no_username_check(username, email, password, gravatar) ==
    IF get_user_by_email(email) # NoUser
    THEN [response |-> Reply("register_user", HTTP_409, "A user with this email already exists"), users |-> users]
    ELSE [response |-> Raised("register_user", "TypeError"), users |-> users]

register_user(username, email, password, gravatar) ==
    LET op == "register_user" IN
    IF get_user_by_email(email) # NoUser
    THEN [response |-> Reply(op, HTTP_409, "A user with this email already exists"), users |-> users]
    ELSE IF get_user_by_username(username) # NoUser
    THEN [response |-> Reply(op, HTTP_409, "A user with this name already exists"), users |-> users]
    ELSE LET body == [username |-> username, email |-> email,
                      password |-> get_password_hash(Plain(password))]
             created == UserService_create_user(body, gravatar)
         IN  IF created.raised # "-"
             THEN [response |-> Raised(op, created.raised), users |-> created.users]
             ELSE [response |-> Reply(op, HTTP_201, "-"), users |-> created.users]

register(username, email, password) ==
    \E gravatar \in Gravatars :
        LET out == register_user(username, email, password, gravatar) IN
        /\ last' = [out.response EXCEPT !.username = username, !.email = email,
                                        !.password = password]
        /\ users' = out.users
        /\ scheduled' = IF out.response.status = HTTP_201
                        THEN scheduled \cup {[task |-> "send_email", args |-> <<email, 0>>]}
                        ELSE scheduled
        /\ UNCHANGED <<now, reset_tokens, issued, cache, req, redeemed, held, contacts, contact_seq, reg>>

\* The same request in two steps, between which other requests can run: first
\* the two existence checks,
register_check(r, username, email, password) ==
    /\ reg[r].pc = "idle"
    /\ IF get_user_by_email(email) # NoUser
       THEN /\ last' = [Reply("register_user", HTTP_409, "A user with this email already exists")
                          EXCEPT !.username = username, !.email = email, !.password = password]
            /\ reg' = reg
       ELSE IF get_user_by_username(username) # NoUser
       THEN /\ last' = [Reply("register_user", HTTP_409, "A user with this name already exists")
                          EXCEPT !.username = username, !.email = email, !.password = password]
            /\ reg' = reg
       ELSE /\ reg' = [reg EXCEPT ![r] = [pc |-> "checked", username |-> username,
                                          email |-> email, password |-> password]]
            /\ last' = last
    /\ UNCHANGED <<now, users, reset_tokens, issued, cache, req, scheduled, redeemed, held,
                   contacts, contact_seq>>

\* then the hashing of the password, UserService.create_user and the
\* scheduling of the verification email.
register_create(r, gravatar) ==
    /\ reg[r].pc = "checked"
    /\ LET body == [username |-> reg[r].username, email |-> reg[r].email,
                    password |-> get_password_hash(Plain(reg[r].password))]
           created == UserService_create_user(body, gravatar)
       IN  /\ users' = created.users
           /\ last' = [(IF created.raised # "-"
                        THEN Raised("register_user", created.raised)
                        ELSE Reply("register_user", HTTP_201, "-"))
                       EXCEPT !.username = reg[r].username, !.email = reg[r].email,
                              !.password = reg[r].password, !.pre_hashed = TRUE]
           /\ scheduled' = IF created.raised # "-" THEN scheduled
                           ELSE scheduled \cup
                                  {[task |-> "send_email", args |-> <<reg[r].email, 0>>]}
    /\ reg' = [reg EXCEPT ![r] = NotRegistering]
    /\ UNCHANGED <<now, reset_tokens, issued, cache, req, redeemed, held, contacts, contact_seq>>

\* A call of UserRepository.create_user by a caller that holds a session, with
\* a plaintext password in the body or, as the register handler prepares the
\* body, with the hash of it.
repository_create_user(username, email, password, pre_hashed) ==
    /\ LET user == [username |-> username, email |-> email,
                    password |-> IF pre_hashed THEN get_password_hash(Plain(password))
                                 ELSE Plain(password)]
           created == UserRepository_create_user(user)
       IN  /\ users' = created.users
           /\ last' = [Reply("UserRepository.create_user", 0, created.raised)
                         EXCEPT !.username = username, !.email = email,
                                !.password = password, !.pre_hashed = pre_hashed]
    /\ UNCHANGED <<now, reset_tokens, issued, cache, req, scheduled, redeemed, held,
                   contacts, contact_seq, reg>>

\* -------------------------------------------------------------------- contacts
\* date.today()
date_today == now \div SECONDS_PER_DAY

NoContact == [id |-> 0, first_name |-> "None", last_name |-> "None",
              email |-> "None", phone_number |-> "None", birth_date |-> {}]

\* The methods ContactRepository defines.
ContactRepositoryMethods ==
    {"create_contact", "get_contacts", "get_contact_by_id", "update_contact",
     "delete_contact", "get_upcoming_birthdays"}

\* A row with the fields of body.model_dump(exclude_unset=True) set on it.
setattr_fields(row, body) ==
    [f \in DOMAIN row |-> IF f \in body.set THEN body[f] ELSE row[f]]

\* ContactRepository.get_contact_by_id
get_contact_by_id(contact_id) ==
    IF \E c \in contacts : c.id = contact_id
    THEN CHOOSE c \in contacts : c.id = contact_id
    ELSE NoContact

\* ContactRepository.create_contact: ValueError when the email is taken,
\* otherwise the row is added and committed with the next id.
ContactRepository_create_contact(body) ==
    IF \E c \in contacts : c.email = body.email
    THEN [raised |-> "ValueError", contact |-> NoContact,
          contacts |-> contacts, contact_seq |-> contact_seq]
    ELSE LET db_contact == setattr_fields([NoContact EXCEPT !.id = contact_seq + 1], body)
         IN  [raised |-> "-", contact |-> db_contact,
              contacts |-> contacts \cup {db_contact}, contact_seq |-> contact_seq + 1]

\* ContactRepository.update_contact: None for an unknown id; otherwise the
\* supplied fields are set and committed.  contacts.email is unique: a commit
\* that would leave two rows with one email raises IntegrityError, and the
\* session is rolled back.
ContactRepository_update_contact_all_fields(contact_id, body) ==
    LET db_contact == get_contact_by_id(contact_id)
        updated == [f \in DOMAIN db_contact |->
                       IF f \in ContactFields THEN body[f] ELSE db_contact[f]]
    IN  IF db_contact = NoContact
        THEN [raised |-> "-", contact |-> NoContact, contacts |-> contacts]
        ELSE IF \E c \in contacts \ {db_contact} : c.email = updated.email
        THEN [raised |-> "IntegrityError", contact |-> NoContact, contacts |-> contacts]
        ELSE [raised |-> "-", contact |-> updated,
              contacts |-> (contacts \ {db_contact}) \cup {updated}]

ContactRepository_update_contact(contact_id, body) ==
    LET db_contact == get_contact_by_id(contact_id)
        updated == setattr_fields(db_contact, body)
    IN  IF db_contact = NoContact
        THEN [raised |-> "-", contact |-> NoContact, contacts |-> contacts]
        ELSE IF \E c \in contacts \ {db_contact} : c.email = updated.email
        THEN [raised |-> "IntegrityError", contact |-> NoContact, contacts |-> contacts]
        ELSE [raised |-> "-", contact |-> updated,
              contacts |-> (contacts \ {db_contact}) \cup {updated}]

\* ContactRepository.delete_contact: the row of that id, if any, is deleted
\* and the deletion committed.
ContactRepository_delete_contact(contact_id) ==
    LET db_contact == get_contact_by_id(contact_id) IN
    IF db_contact # NoContact THEN contacts \ {db_contact} ELSE contacts

\* The orders in which a query `order by birth_date asc` can return rows.
OrderedByBirthDate(rows) ==
    {seq \in [1..Cardinality(rows) -> rows] :
        /\ \A i, j \in 1..Cardinality(rows) : i # j => seq[i] # seq[j]
        /\ \A i, j \in 1..Cardinality(rows) :
              i < j => \A a \in seq[i].birth_date, b \in seq[j].birth_date : a <= b}

\* ContactRepository.get_upcoming_birthdays: the rows whose birth_date lies
\* between today and today + days.
upcoming_birthdays(days) ==
    {c \in contacts :
        \E d \in c.birth_date : d >= date_today /\ d <= date_today + days}

\* ---------------------------------------------------- contacts: the requests
\* A call of ContactRepository.create_contact by a caller that holds a
\* session.
repository_create_contact(body) ==
    /\ LET out == ContactRepository_create_contact(body) IN
       /\ contacts' = out.contacts
       /\ contact_seq' = out.contact_seq
       /\ last' = [Reply("ContactRepository.create_contact", 0, out.raised)
                     EXCEPT !.email = body.email, !.contact_id = out.contact.id,
                            !.returned = IF out.raised = "-" THEN <<out.contact>> ELSE <<>>]
    /\ UNCHANGED <<now, users, reset_tokens, issued, cache, req, scheduled, redeemed, held, reg>>

\* A call of ContactRepository.delete_contact by a caller that holds a session.
repository_delete_contact(contact_id) ==
    /\ contacts' = ContactRepository_delete_contact(contact_id)
    /\ last' = [Reply("ContactRepository.delete_contact", 0, "-")
                  EXCEPT !.contact_id = contact_id]
    /\ UNCHANGED <<now, users, reset_tokens, issued, cache, req, scheduled, redeemed, held,
                   contact_seq, reg>>

\* ContactService.create_contact: the repository is asked is_contact_exists
\* first; 400 when it says yes, otherwise the contact is created.
ContactService_create_contact(body) ==
    LET op == "create_contact"
        out == ContactRepository_create_contact(body)
        Unchanged(resp) == [response |-> resp, contacts |-> contacts,
                            contact_seq |-> contact_seq]
    IN  IF "is_contact_exists" \notin ContactRepositoryMethods
        THEN Unchanged(Raised(op, "AttributeError"))
        ELSE IF \E c \in contacts : c.email = body.email \/ c.phone_number = body.phone_number
        THEN Unchanged(Reply(op, HTTP_400, "Contact already exists"))
        ELSE IF out.raised # "-" THEN Unchanged(Raised(op, out.raised))
        ELSE [response |-> [Reply(op, HTTP_201, "-") EXCEPT !.returned = <<out.contact>>,
                                                           !.contact_id = out.contact.id],
              contacts |-> out.contacts, contact_seq |-> out.contact_seq]

\* POST /contacts/
create_contact(body) ==
    /\ LET out == ContactService_create_contact(body) IN
       /\ contacts' = out.contacts
       /\ contact_seq' = out.contact_seq
       /\ last' = [out.response EXCEPT !.email = body.email]
    /\ UNCHANGED <<now, users, reset_tokens, issued, cache, req, scheduled, redeemed, held, reg>>

\* GET /contacts/{contact_id}: ContactService.get_contact
get_contact(contact_id) ==
    /\ LET contact == get_contact_by_id(contact_id) IN
       last' = [(IF contact = NoContact
                 THEN Reply("get_contact", HTTP_404, "Contact not found")
                 ELSE [Reply("get_contact", HTTP_200, "-") EXCEPT !.returned = <<contact>>])
                EXCEPT !.contact_id = contact_id]
    /\ UNCHANGED <<now, users, reset_tokens, issued, cache, req, scheduled, redeemed, held,
                   contacts, contact_seq, reg>>

\* ContactService.update_contact: whatever the repository returns is handed
\* to ContactResponse.model_validate, which refuses None.
ContactService_update_contact(contact_id, body) ==
    LET op == "update_contact"
        out == ContactRepository_update_contact(contact_id, body)
    IN  IF out.raised # "-"
        THEN [response |-> Raised(op, out.raised), contacts |-> out.contacts]
        ELSE IF out.contact = NoContact
        THEN [response |-> Raised(op, "ValidationError"), contacts |-> out.contacts]
        ELSE [response |-> [Reply(op, HTTP_200, "-") EXCEPT !.returned = <<out.contact>>],
              contacts |-> out.contacts]

\* PUT /contacts/{contact_id}, with a ContactCreate body
update_contact(contact_id, body) ==
    /\ LET out == ContactService_update_contact(contact_id, body) IN
       /\ contacts' = out.contacts
       /\ last' = [out.response EXCEPT !.contact_id = contact_id, !.email = body.email,
                                       !.supplied = body.set]
    /\ UNCHANGED <<now, users, reset_tokens, issued, cache, req, scheduled, redeemed, held,
                   contact_seq, reg>>

\* ContactService.remove_contact: calls the repository's remove_contact and
\* answers 404 when that returns nothing.
ContactService_remove_contact(contact_id) ==
    LET op == "delete_contact" IN
    IF "remove_contact" \notin ContactRepositoryMethods
    THEN [response |-> Raised(op, "AttributeError"), contacts |-> contacts]
    ELSE IF get_contact_by_id(contact_id) = NoContact
    THEN [response |-> Reply(op, HTTP_404, "Contact not found"), contacts |-> contacts]
    ELSE [response |-> Reply(op, HTTP_204, "Contact deleted"),
          contacts |-> ContactRepository_delete_contact(contact_id)]

\* DELETE /contacts/{contact_id}
delete_contact(contact_id) ==
    /\ LET out == ContactService_remove_contact(contact_id) IN
       /\ contacts' = out.contacts
       /\ last' = [out.response EXCEPT !.contact_id = contact_id]
    /\ UNCHANGED <<now, users, reset_tokens, issued, cache, req, scheduled, redeemed, held,
                   contact_seq, reg>>

\* GET /contacts/upcoming-birthdays/: ContactService.get_upcoming_birthdays()
get_upcoming_birthdays ==
    /\ \E seq \in OrderedByBirthDate(upcoming_birthdays(UPCOMING_DAYS)) :
          last' = [Reply("get_upcoming_birthdays", HTTP_200, "-") EXCEPT !.returned = seq]
    /\ UNCHANGED <<now, users, reset_tokens, issued, cache, req, scheduled, redeemed, held,
                   contacts, contact_seq, reg>>

\* ------------------------------------------------------------- authentication
credentials_exception(op) == Reply(op, HTTP_401, "Could not validate credentials")

\* get_current_user: the bearer token is decoded, payload["sub"] is read and
\* the user of that name is loaded.  Only a JWTError is caught.
get_current_user(token) ==
    LET op == "get_current_user"
        decoded == jwt_decode(token)
        username == decoded.payload.sub
    IN  IF decoded.error # "-" THEN credentials_exception(op)
        ELSE IF username = NoSub THEN Raised(op, "KeyError")
        ELSE IF username = NullSub THEN credentials_exception(op)
        ELSE IF get_user_by_username(username) = NoUser THEN credentials_exception(op)
        ELSE [Reply(op, HTTP_200, "-") EXCEPT !.username = username]

\* GET /me
me ==
    /\ last' = [get_current_user(held.jwt) EXCEPT !.presented = held]
    /\ UNCHANGED <<now, users, reset_tokens, issued, cache, req, scheduled, redeemed, held, contacts, contact_seq, reg>>

\* UserService.get_user_by_username(username) called on the class: username is
\* bound to self and the argument proper is missing, a TypeError.
UserService_get_user_by_username(username) ==
    [raised |-> "TypeError", user |-> NoUser]

\* POST /auth/refresh.  create_access_token is a coroutine function and is
\* called without await: the access_token handed to the response model is a
\* coroutine object, which the model (access_token: str) refuses.
refresh_token(token) ==
    LET op == "refresh_token"
        decoded == jwt_decode(token)
        username == decoded.payload.sub
        found == UserService_get_user_by_username(username)
    IN  IF decoded.error # "-" THEN Reply(op, HTTP_401, "Invalid or expired token")
        ELSE IF username \in {NoSub, NullSub} THEN credentials_exception(op)
        ELSE IF found.raised # "-" THEN Raised(op, found.raised)
        ELSE IF found.user = NoUser THEN Reply(op, HTTP_401, "User not found")
        ELSE [Raised(op, "ResponseValidationError") EXCEPT !.username = username]

refresh ==
    /\ last' = [refresh_token(held.jwt) EXCEPT !.presented = held]
    /\ UNCHANGED <<now, users, reset_tokens, issued, cache, req, scheduled, redeemed, held, contacts, contact_seq, reg>>

\* ---------------------------------------------------------- email verification
\* get_email_from_token: payload["sub"], or 422 for a JWTError.
get_email_from_token(token) ==
    LET decoded == jwt_decode(token) IN
    IF decoded.error # "-" THEN [raised |-> "HTTPException", email |-> "-"]
    ELSE IF decoded.payload.sub = NoSub THEN [raised |-> "KeyError", email |-> "-"]
    ELSE [raised |-> "-", email |-> decoded.payload.sub]

\* get_email_from_token's failure as the response of the handler that called it.
email_token_refused(op, raised) ==
    IF raised = "HTTPException"
    THEN Reply(op, HTTP_422, "Invalid token for email verification")
    ELSE Raised(op, raised)

\* UserRepository.confirmed_email(email): the user's flag is set and committed.
UserRepository_confirmed_email(email) ==
    [users EXCEPT ![get_user_by_email(email)].is_verified = TRUE]

\* GET /auth/confirmed_email/{token}.  The handler reads user.confirmed; a
\* row of users has the columns of the User model.
confirmed_email(token) ==
    LET op == "confirmed_email"
        got == get_email_from_token(token)
        user == get_user_by_email(got.email)
        In(resp) == [resp EXCEPT !.email = got.email]
    IN  IF got.raised # "-"
        THEN [response |-> email_token_refused(op, got.raised), users |-> users]
        ELSE IF user = NoUser
        THEN [response |-> In(Reply(op, HTTP_400, "Verification error")), users |-> users]
        ELSE IF "confirmed" \notin DOMAIN users[user]
        THEN [response |-> In(Raised(op, "AttributeError")), users |-> users]
        ELSE IF users[user]["confirmed"]
        THEN [response |-> In(Reply(op, HTTP_200, "Your email is already confirmed")),
              users |-> users]
        ELSE [response |-> In(Reply(op, HTTP_200, "Email confirmed")),
              users |-> UserRepository_confirmed_email(got.email)]

confirmed_email_request ==
    /\ last' = [confirmed_email(held.jwt).response EXCEPT !.presented = held]
    /\ users' = confirmed_email(held.jwt).users
    /\ UNCHANGED <<now, reset_tokens, issued, cache, req, scheduled, redeemed, held, contacts, contact_seq, reg>>

\* What the store holds after a session's commit(): the session's rows when
\* the coroutine is awaited, the rows as they were when it is only created.
AsyncSession_commit(awaited, pending) == IF awaited THEN pending ELSE users

\* POST /auth/verify-email/{token}.  `except JWTError` does not catch the
\* HTTPException get_email_from_token raises; db.commit() and db.refresh(user)
\* are called without await.
verify_email(token) ==
    LET op == "verify_email"
        got == get_email_from_token(token)
        user == get_user_by_email(got.email)
        In(resp) == [resp EXCEPT !.email = got.email]
    IN  IF got.raised # "-"
        THEN [response |-> email_token_refused(op, got.raised), users |-> users]
        ELSE IF user = NoUser
        THEN [response |-> In(Reply(op, HTTP_404, "User not found")), users |-> users]
        ELSE IF users[user].is_verified
        THEN [response |-> In(Reply(op, HTTP_400, "Email is already verified")),
              users |-> users]
        ELSE [response |-> In(Reply(op, HTTP_200, "Email successfully verified")),
              users |-> AsyncSession_commit(FALSE,
                            [users EXCEPT ![user].is_verified = TRUE])]

verify_email_request ==
    /\ last' = [verify_email(held.jwt).response EXCEPT !.presented = held]
    /\ users' = verify_email(held.jwt).users
    /\ UNCHANGED <<now, reset_tokens, issued, cache, req, scheduled, redeemed, held, contacts, contact_seq, reg>>

\* ------------------------------------------------------------ tokens in hand
\* A token as its issuer made it.  Handing it out is the response of the
\* operation that made it.
Issued(jwt, kind, expires_delta) ==
    [jwt |-> jwt, kind |-> kind, issued_at |-> now, expires_delta |-> expires_delta]

\* create_access_token(data, expires_delta), signed.
obtain_access_token(sub, expires_delta) ==
    /\ held' = Issued(jwt_encode(access_token_claims(sub, expires_delta)),
                      "access", expires_delta)
    /\ last' = Reply("create_access_token", HTTP_200, "-")
    /\ UNCHANGED <<now, users, reset_tokens, issued, cache, req, scheduled, redeemed, contacts, contact_seq, reg>>

\* create_refresh_token(data), signed.
obtain_refresh_token(sub) ==
    /\ held' = Issued(jwt_encode(create_refresh_token(sub)), "refresh", {})
    /\ last' = Reply("create_refresh_token", HTTP_200, "-")
    /\ UNCHANGED <<now, users, reset_tokens, issued, cache, req, scheduled, redeemed, contacts, contact_seq, reg>>

\* create_email_token(data)
obtain_email_token(email) ==
    /\ held' = Issued(create_email_token(email), "email", {})
    /\ last' = Reply("create_email_token", HTTP_200, "-")
    /\ UNCHANGED <<now, users, reset_tokens, issued, cache, req, scheduled, redeemed, contacts, contact_seq, reg>>

\* The signature segments of 43 base64url characters other than the token's
\* own: the text of another MAC, or the token's MAC with other spare bits.
OtherSignatures(jwt) ==
    {[mac |-> hmac_sign(key, jwt.payload), spare |-> b] :
        key \in Keys, b \in 0..(2^SPARE_BITS - 1)} \ {jwt.signature}

\* The client changes the signature segment of the token it was issued.
tamper(signature) ==
    /\ held.kind # "-"
    /\ held.jwt = jwt_encode(held.jwt.payload)
    /\ signature \in OtherSignatures(held.jwt)
    /\ held' = [held EXCEPT !.jwt.signature = signature]
    /\ UNCHANGED <<now, users, reset_tokens, issued, cache, req, scheduled, redeemed, last, contacts, contact_seq, reg>>

\* ----------------------------------------------------------------------- time
Tick ==
    /\ now < MaxTicks * TickSeconds
    /\ now' = now + TickSeconds
    /\ UNCHANGED <<users, reset_tokens, issued, cache, req, scheduled, redeemed, held, last, contacts, contact_seq, reg>>

\* ---------------------------------------------------------------------- init
\* The store holds two users whose password is pw1; the second has verified
\* its email.  The redis server is
\* shared and outlives the process: at start it holds nothing, or a record of
\* u1 serialized while the hash was that of pw1, with a full TTL ahead.
Init ==
    /\ now = 0
    /\ users = [id \in UserIds |->
                   [id |-> id,
                    username |-> IF id = 1 THEN "u1" ELSE "u2",
                    email |-> IF id = 1 THEN "e1" ELSE "e2",
                    hashed_password |-> get_password_hash(Plain("pw1")),
                    avatar |-> "None",
                    is_verified |-> (id = 2)]]
    /\ reset_tokens = {}
    /\ issued = 0
    /\ cache \in {[u \in CacheKeys |-> NoEntry],
                  [[u \in CacheKeys |-> NoEntry] EXCEPT !["u1"] =
                      [present |-> TRUE, username |-> "u1",
                       hashed_password |-> get_password_hash(Plain("pw1")),
                       expires_at |-> CACHE_TTL_SECONDS]]}
    /\ req = [r \in ReqIds |-> Idle]
    /\ scheduled = {}
    /\ redeemed = [t \in IssuableIds |-> <<>>]
    /\ held = NoHeld
    /\ contacts = {}
    /\ contact_seq = 0
    /\ reg = [r \in ReqIds |-> NotRegistering]
    /\ last = NoResponse

\* Requests of the reset flow, two confirm requests at a time.
Next ==
    \/ Tick
    \/ \E email \in Emails : issued < MaxTokens /\ request_password_reset(email)
    \/ \E r \in ReqIds, token \in TokenIds, p \in Passwords : confirm_verify(r, token, p)
    \/ \E r \in ReqIds, persisted \in BOOLEAN : confirm_commit(r, persisted)

Spec == Init /\ [][Next]_vars

\* Requests of the whole auth flow, one at a time.
NextAuth ==
    \/ Tick
    \/ \E email \in Emails : issued < MaxTokens /\ request_password_reset(email)
    \/ \E token \in TokenIds, p \in Passwords : confirm_verify(1, token, p)
    \/ \E persisted \in BOOLEAN : confirm_commit(1, persisted)
    \/ \E email \in Emails, p \in Passwords, redis \in RedisClients :
           login_with_client(email, p, redis)
    \/ \E email \in Emails, p \in Passwords : login_request(email, p)
    \/ \E username \in Usernames, email \in Emails, p \in Passwords :
           register(username, email, p)

SpecAuth == Init /\ [][NextAuth]_vars

\* Requests of the reset flow, one at a time, with several tokens issued.
InitOutstanding == Init /\ ~cache["u1"].present

NextOutstanding ==
    \/ Tick
    \/ \E email \in Emails : issued < MaxOutstanding /\ request_password_reset(email)
    \/ \E token \in OutstandingIds, p \in ResetPasswords : confirm_verify(1, token, p)
    \/ \E persisted \in BOOLEAN : confirm_commit(1, persisted)

SpecOutstanding == InitOutstanding /\ [][NextOutstanding]_vars

\* Requests of the contacts API, and repository calls, one at a time.
NextContacts ==
    \/ \E body \in ContactBodies :
           contact_seq < MaxContacts /\ repository_create_contact(body)
    \/ \E contact_id \in ContactIds : repository_delete_contact(contact_id)
    \/ \E body \in ContactBodies : create_contact(body)
    \/ \E contact_id \in ContactIds : get_contact(contact_id)
    \/ \E contact_id \in ContactIds, body \in ContactBodies : update_contact(contact_id, body)
    \/ \E contact_id \in ContactIds : delete_contact(contact_id)
    \/ get_upcoming_birthdays

SpecContacts == InitOutstanding /\ [][NextContacts]_vars

\* Two register requests at a time, and repository calls.
NextRegister ==
    \/ \E r \in ReqIds, username \in Usernames, email \in Emails, p \in ResetPasswords :
           register_check(r, username, email, p)
    \/ \E r \in ReqIds, gravatar \in Gravatars : register_create(r, gravatar)
    \/ \E username \in Usernames, email \in Emails, p \in ResetPasswords, pre_hashed \in BOOLEAN :
           Len(users) < Cardinality(UserIds) + MaxNewUsers
               /\ repository_create_user(username, email, p, pre_hashed)
    \/ \E email \in Emails, p \in ResetPasswords : login_request(email, p)

SpecRegister == InitOutstanding /\ [][NextRegister]_vars

\* A client with one token in hand: it is issued tokens, may alter the
\* signature of the one it holds, and presents it to the endpoints that take
\* a token.
InitTokens == Init /\ ~cache["u1"].present

NextTokens ==
    \/ Tick
    \/ \E sub \in Subjects, expires_delta \in ExpiresDeltas :
           obtain_access_token(sub, expires_delta)
    \/ \E sub \in Usernames : obtain_refresh_token(sub)
    \/ \E email \in StoredEmails : obtain_email_token(email)
    \/ \E key \in Keys, b \in 0..(2^SPARE_BITS - 1) :
           tamper([mac |-> hmac_sign(key, held.jwt.payload), spare |-> b])
    \/ me
    \/ refresh
    \/ confirmed_email_request
    \/ verify_email_request

SpecTokens == InitTokens /\ [][NextTokens]_vars

\* ===================================================================== claims
LoginOps == {"login_user", "login_request"}

\* The hash login is to check against for a registered email: the row's.
StoredHash(email) == users[get_user_by_email(email)].hashed_password

\* C1: a reset token is single-use: once a confirm with token t has succeeded,
\* every reset_password(t, p) that starts later returns absent (400 at the
\* boundary), opens no session on the token and leaves the users table and
\* the token table as they are, so the stored hash stays that of the first
\* reset; the token's row never comes back.
C1_SingleUse ==
    [][\A t \in TokenIds :
         redeemed[t] # <<>> =>
           /\ select_token(t) = {} /\ select_token(t)' = {}
           /\ \A r \in ReqIds, p \in Passwords :
                confirm_verify(r, t, p) =>
                  /\ last'.status = HTTP_400
                  /\ req' = req
                  /\ users' = users]_vars

\* A confirm with a redeemed token was refused while the token's hour had not
\* run out.
C1_Witness ==
    \E t \in TokenIds :
        /\ redeemed[t] # <<>>
        /\ now < RESET_TOKEN_TTL_SECONDS
        /\ last.op = "confirm_password_reset"
        /\ last.token = t
        /\ last.status = HTTP_400
        /\ \E id \in UserIds :
               verify_password(Plain(redeemed[t][1]), users[id].hashed_password)

\* C2: the end-to-end scenario.  With u1 stored under pw1 and a token
\* redeemed with pw2: login with pw2 succeeds, login with pw1 is 401, and a
\* second confirm with the token (pw3) fails.
C2_Scenario ==
    \A t \in TokenIds :
        redeemed[t] = <<"pw2">> =>
          /\ (last.op \in LoginOps /\ last.email = "e1" /\ last.password = "pw2")
                => last.status = HTTP_200
          /\ (last.op \in LoginOps /\ last.email = "e1" /\ last.password = "pw1")
                => last.status = HTTP_401
          /\ (last.op = "confirm_password_reset" /\ last.token = t
                /\ last.password = "pw3") => last.status = HTTP_400

\* C3: expiry is enforced on redemption.  For a token in the store,
\* verify_token finds it strictly before expires_at and returns absent
\* strictly after; a reset_password that starts before expires_at goes on to
\* its commit, one that starts after is answered 400 and changes no password;
\* an expired token stays expired.
C3_Expiry ==
    /\ [](\A row \in reset_tokens :
            /\ now < row.expires_at => verify_token(row.token) = row
            /\ now > row.expires_at => verify_token(row.token) = NoRow)
    /\ [][\A row \in reset_tokens :
            /\ \A r \in ReqIds, p \in Passwords :
                 confirm_verify(r, row.token, p) =>
                   /\ now < row.expires_at => req'[r].pc = "loaded"
                   /\ now > row.expires_at =>
                        /\ last'.status = HTTP_400
                        /\ req' = req
                        /\ users' = users
            /\ (now > row.expires_at /\ row \in reset_tokens') => now' > row.expires_at
       ]_vars

\* A confirm with a token that is still in the store was refused: its hour
\* had run out.
C3_Witness ==
    \E row \in reset_tokens :
        /\ now > row.expires_at
        /\ last.op = "confirm_password_reset"
        /\ last.token = row.token
        /\ last.status = HTTP_400
        /\ StoredHash("e1") = get_password_hash(Plain("pw1"))

\* C4: reset_password is atomic.  Every step either leaves the users table
\* alone and removes no token, or is the commit of one request, which writes
\* that request's hash and removes its token together and answers 200; a
\* confirm that ends in a persistence error has changed neither table.
C4_Atomic ==
    [][/\ \/ (users' = users /\ reset_tokens \subseteq reset_tokens')
          \/ \E r \in ReqIds :
                /\ req[r].pc = "loaded"
                /\ users' = [users EXCEPT ![req[r].row.user_id].hashed_password =
                                get_password_hash(Plain(req[r].new_password))]
                /\ reset_tokens' = reset_tokens \ {req[r].row}
                /\ last'.status = HTTP_200
                /\ last'.token = req[r].token
       /\ \A r \in ReqIds :
             confirm_commit(r, FALSE) =>
                 (last'.status = HTTP_500 /\ users' = users /\ reset_tokens' = reset_tokens)
      ]_vars

\* A confirm ended in a persistence error: its token is still in the store
\* and nobody's password is the one it asked for.
C4_Witness ==
    /\ last.op = "confirm_password_reset"
    /\ last.status = HTTP_500
    /\ select_token(last.token) # {}
    /\ \A id \in UserIds :
           ~verify_password(Plain(last.password), users[id].hashed_password)

\* C5: of the confirm requests racing for one token at most one succeeds, and
\* the stored password is the winner's.
C5_OneWinner ==
    \A t \in TokenIds :
        /\ Len(redeemed[t]) <= 1
        /\ (redeemed[t] # <<>> /\ \A r \in ReqIds : req[r].pc = "idle") =>
              \E id \in UserIds :
                  verify_password(Plain(redeemed[t][1]), users[id].hashed_password)

\* C6: register answers 409 whenever the email or the username is taken, and
\* then the users table is unchanged and no email is scheduled.
C6_RegisterConflict ==
    [][\A username \in Usernames, email \in Emails, p \in Passwords :
         (/\ register(username, email, p)
          /\ (get_user_by_email(email) # NoUser \/ get_user_by_username(username) # NoUser))
         => /\ last'.status = HTTP_409
            /\ users' = users
            /\ scheduled' = scheduled]_vars

\* A register with a free email and a taken username was answered 409.
C6_Witness ==
    /\ last.op = "register_user"
    /\ last.status = HTTP_409
    /\ get_user_by_email(last.email) = NoUser
    /\ get_user_by_username(last.username) # NoUser

\* C7: a login that fails, for an unregistered email or for a registered
\* email with a wrong password, is the same 401 with the same generic message
\* and no tokens.
C7_LoginFailureUniform ==
    (/\ last.op = "login_user"
     /\ last.redis = "up"
     /\ \/ get_user_by_email(last.email) = NoUser
        \/ (/\ ~verify_password(Plain(last.password), StoredHash(last.email))
            /\ ~last.cache_hit))
    => /\ last.status = HTTP_401
       /\ last.detail = "Incorrect login or password"
       /\ last.body = NoBody

\* C8: every successful login returns an access token and a refresh token for
\* the user's username and leaves the cache entry "user:{username}" with a
\* TTL of 3600 seconds counted from the login.
C8_LoginSuccess ==
    (last.op \in LoginOps /\ last.status = HTTP_200)
    => /\ {"access_token", "refresh_token"} \subseteq last.body.keys
       /\ last.body.access_token.sub = last.username
       /\ last.body.refresh_token.sub = last.username
       /\ cache[last.username].present
       /\ cache[last.username].expires_at =
              (last.body.access_token.exp - JWT_EXPIRATION_SECONDS) + CACHE_TTL_SECONDS

\* C9: login checks the password against the cached hash when a cached
\* record exists and against the stored hash otherwise.
C9_HashSource ==
    (/\ last.op = "login_user"
     /\ last.redis = "up"
     /\ get_user_by_email(last.email) # NoUser)
    => IF last.cache_hit
       THEN last.status = HTTP_200 <=>
                verify_password(Plain(last.password),
                    cache[users[get_user_by_email(last.email)].username].hashed_password)
       ELSE last.status = HTTP_200 <=>
                verify_password(Plain(last.password), StoredHash(last.email))

\* C10: with the cache's backing store unavailable login behaves as on a
\* cache miss: the stored hash decides between tokens and 401, and the
\* failure of the cache is not surfaced.
C10_CacheDown ==
    (/\ last.op = "login_user"
     /\ last.redis \in {"get_fails", "set_fails"}
     /\ get_user_by_email(last.email) # NoUser)
    => /\ last.status \in {HTTP_200, HTTP_401}
       /\ last.status = HTTP_200 <=>
              verify_password(Plain(last.password), StoredHash(last.email))

\* The held token is as its issuer made it.
Untampered(h) == h.kind # "-" /\ h.jwt = jwt_encode(h.jwt.payload)

\* The TTL a token was asked with: the one given, or the configured one.
AskedTtl(h) ==
    IF h.expires_delta = {} THEN JWT_EXPIRATION_SECONDS
    ELSE CHOOSE n \in h.expires_delta : TRUE

\* C11: refresh with a refresh token whose signature is valid, whose exp has
\* not passed and whose subject is a stored user returns 200 with a new access
\* token for that subject and no refresh token; with an invalid or expired
\* token, or a subject that is no user, it answers 401.
C11_Refresh ==
    [][refresh =>
         LET decoded == jwt_decode(held.jwt)
             sub == decoded.payload.sub
         IN  IF decoded.error = "-" /\ sub \in Usernames
                    /\ get_user_by_username(sub) # NoUser
             THEN held.kind = "refresh" =>
                    /\ last'.status = HTTP_200
                    /\ "access_token" \in last'.body.keys
                    /\ "refresh_token" \notin last'.body.keys
                    /\ last'.body.access_token.sub = sub
             ELSE last'.status = HTTP_401]_vars

\* C12: an access token made by create_access_token({sub: s}, ttl) for a
\* stored user s is accepted by get_current_user, as s, at every time up to
\* issue + ttl, and refused at every time after issue + ttl.
C12_AccessTokenLifetime ==
    [][(/\ me
        /\ held.kind = "access"
        /\ Untampered(held)
        /\ held.jwt.payload.sub \in Usernames
        /\ get_user_by_username(held.jwt.payload.sub) # NoUser)
       => /\ now <= held.issued_at + AskedTtl(held) =>
                (last'.status = HTTP_200 /\ last'.username = held.jwt.payload.sub)
          /\ now > held.issued_at + AskedTtl(held) => last'.status = HTTP_401]_vars

\* C13: whenever get_current_user does not return a user (bad signature,
\* malformed token, expired token, no sub claim, sub of no user) the answer is
\* the one 401 "Could not validate credentials".
C13_OpaqueFailure ==
    (last.op = "get_current_user" /\ last.status # HTTP_200)
    => (last.status = HTTP_401 /\ last.detail = "Could not validate credentials")

\* The answer of a token endpoint that refuses the token as invalid.
RefusedAsInvalid(resp) ==
    \/ resp.op \in {"get_current_user", "refresh_token"} /\ resp.status = HTTP_401
    \/ resp.op \in {"confirmed_email", "verify_email"} /\ resp.status = HTTP_422

TokenOps == {"get_current_user", "refresh_token", "confirmed_email", "verify_email"}

\* C14 as stated: a token that differs from an issued token in its signature
\* segment alone, in whatever way, is refused as invalid by every endpoint
\* that verifies it.
C14_AnySignatureChange ==
    (/\ last.op \in TokenOps
     /\ last.presented.kind # "-"
     /\ last.presented.jwt.signature # jwt_encode(last.presented.jwt.payload).signature)
    => RefusedAsInvalid(last)

\* C14, amended: a token that differs from an issued token in its signature
\* segment alone is refused as invalid whenever the segment decodes to other
\* bytes than the issued signature.  (A segment that differs in the spare
\* bits of its last character alone decodes to the same bytes.)
C14_SignatureChecked ==
    (/\ last.op \in TokenOps
     /\ last.presented.kind # "-"
     /\ base64url_decode(last.presented.jwt.signature) #
            base64url_decode(jwt_encode(last.presented.jwt.payload).signature))
    => RefusedAsInvalid(last)

\* An access token of a stored user, not expired, was presented to
\* get_current_user with the MAC of another key in its signature segment and
\* was refused.
C14_Witness ==
    /\ last.op = "get_current_user"
    /\ last.status = HTTP_401
    /\ last.presented.kind = "access"
    /\ get_user_by_username(last.presented.jwt.payload.sub) # NoUser
    /\ now <= last.presented.jwt.payload.exp
    /\ base64url_decode(last.presented.jwt.signature).key # JWT_SECRET
    /\ base64url_decode(last.presented.jwt.signature).of = last.presented.jwt.payload

\* C15: email verification with a valid email token answers 404 when no user
\* has the subject email, succeeds and changes nothing when the user is
\* verified already, and otherwise succeeds with the user's flag set in the
\* store; a second application leaves the store as the first did.
C15_VerifyEmail ==
    [][((confirmed_email_request \/ verify_email_request)
        /\ held.kind = "email" /\ Untampered(held) /\ now <= held.jwt.payload.exp)
       => LET user == get_user_by_email(held.jwt.payload.sub) IN
          IF user = NoUser THEN last'.status = HTTP_404 /\ users' = users
          ELSE IF users[user].is_verified
          THEN last'.status = HTTP_200 /\ users' = users
          ELSE /\ last'.status = HTTP_200
               /\ users' = [users EXCEPT ![user].is_verified = TRUE]]_vars

\* C16: a password-reset request for an email of no user answers 404, adds
\* no token and schedules no email; for a stored user it adds exactly one new
\* token row, bound to that user.
C16_ResetRequest ==
    [][\A email \in Emails :
         request_password_reset(email) =>
           LET user == get_user_by_email(email) IN
           IF user = NoUser
           THEN /\ last'.status = HTTP_404
                /\ reset_tokens' = reset_tokens
                /\ issued' = issued
                /\ scheduled' = scheduled
           ELSE \E row \in reset_tokens' :
                    /\ row \notin reset_tokens
                    /\ row.user_id = user
                    /\ reset_tokens' = reset_tokens \cup {row}]_vars

\* A request for an unregistered email was answered 404 with the token table
\* and the task list as they were before any request.
C16_Witness ==
    /\ last.op = "request_password_reset"
    /\ last.status = HTTP_404
    /\ get_user_by_email(last.email) = NoUser
    /\ reset_tokens = {}
    /\ scheduled = {}

\* The outcome of a confirm that finds no usable token, with the given status.
RefusedAlike(r, token, status) ==
    /\ verify_token(token) = NoRow
    /\ last'.status = status
    /\ last'.detail = "Invalid or expired token"
    /\ req' = req
    /\ users' = users
    /\ reset_tokens' = reset_tokens

\* The token string was never issued; the token is in the store and expired.
NeverIssued(token) == token > issued

IssuedExpired(token) == \E row \in select_token(token) : is_expired(row)

\* C17 as stated: a confirm with a token that was never issued and a confirm
\* with an issued, expired token have the same outcome: verify_token returns
\* absent, and the caller gets the same not-found (404) error and message.
C17_SameNotFound ==
    [][\A r \in ReqIds, token \in OutstandingIds, p \in Passwords :
         (confirm_verify(r, token, p) /\ (NeverIssued(token) \/ IssuedExpired(token)))
         => RefusedAlike(r, token, HTTP_404)]_vars

\* C17, amended: a confirm with a token that was never issued and a confirm
\* with an issued, expired token have the same outcome: verify_token returns
\* absent, and the caller gets the same 400 "Invalid or expired token".
C17_SameRefusal ==
    [][\A r \in ReqIds, token \in OutstandingIds, p \in Passwords :
         (confirm_verify(r, token, p) /\ (NeverIssued(token) \/ IssuedExpired(token)))
         => RefusedAlike(r, token, HTTP_400)]_vars

\* One token is in the store, expired, and another was never issued; the last
\* confirm, with one of the two, was refused.
C17_Witness ==
    /\ \E token \in OutstandingIds : IssuedExpired(token)
    /\ \E token \in OutstandingIds : NeverIssued(token)
    /\ last.op = "confirm_password_reset"
    /\ last.status = HTTP_400
    /\ last.detail = "Invalid or expired token"
    /\ (NeverIssued(last.token) \/ IssuedExpired(last.token))

\* C18: create_reset_token(user) adds a row bound to user.id whose expires_at
\* is the time of the call plus one hour, and the token it returns differs
\* from every token in the store.
C18_CreateResetToken ==
    [][\A email \in Emails :
         (request_password_reset(email) /\ get_user_by_email(email) # NoUser)
         => \E row \in reset_tokens' \ reset_tokens :
                /\ row.user_id = get_user_by_email(email)
                /\ row.expires_at = now + RESET_TOKEN_TTL_SECONDS
                /\ \A old \in reset_tokens : old.token # row.token
                /\ last'.status = HTTP_200]_vars

\* Two tokens of one user are in the store, the later one created after the
\* process had started, with an hour of its own.
C18_Witness ==
    \E row1 \in reset_tokens, row2 \in reset_tokens :
        /\ row1.token # row2.token
        /\ row1.user_id = row2.user_id
        /\ row2.expires_at > expires_at_on_import
        /\ last.op = "request_password_reset"
        /\ last.status = HTTP_200

\* C19: reset tokens of one user are independent.  A token row leaves the
\* store only in the commit of the confirm that redeems that very token:
\* creating a token and redeeming another one remove nothing else; and every
\* token in the store that has not expired is still found by verify_token.
C19_Independent ==
    /\ [](\A row \in reset_tokens :
            now <= row.expires_at => verify_token(row.token) = row)
    /\ [][\A row \in reset_tokens :
            \/ row \in reset_tokens'
            \/ \E r \in ReqIds :
                  /\ req[r].pc = "loaded"
                  /\ req[r].row = row
                  /\ last'.status = HTTP_200
                  /\ last'.token = row.token]_vars

\* Two tokens of one user were issued, one was redeemed while the other was
\* in the store, and the other was redeemed after it.
C19_Witness ==
    \E t1 \in OutstandingIds, t2 \in OutstandingIds :
        /\ t1 # t2
        /\ Len(redeemed[t1]) = 1
        /\ Len(redeemed[t2]) = 1
        /\ last.op = "confirm_password_reset"
        /\ last.status = HTTP_200
        /\ last.token = t2

\* C20: get_current_user never accepts a refresh token, and refresh never
\* accepts an access token or an email-verification token.
C20_NotInterchangeable ==
    /\ (last.op = "get_current_user" /\ last.presented.kind = "refresh")
          => last.status # HTTP_200
    /\ (last.op = "refresh_token" /\ last.presented.kind \in {"access", "email"})
          => last.status # HTTP_200

\* ---------------------------------------------------------------- register
\* C21: a register request that passed the existence checks is answered 201
\* with the user stored, and only then is the verification email scheduled;
\* no step ever takes a stored user away.
C21_RegisterPersists ==
    /\ [][\A id \in DOMAIN users : id \in DOMAIN users' /\ users'[id].email = users[id].email]_vars
    /\ [][\A r \in ReqIds, gravatar \in Gravatars :
            register_create(r, gravatar) =>
                /\ last'.status = HTTP_201
                /\ \E id \in DOMAIN users' : users'[id].email = reg[r].email
                /\ [task |-> "send_email", args |-> <<reg[r].email, 0>>] \in scheduled']_vars

\* C26: UserService.create_user, called by a register request that passed the
\* checks, always stores the user: with the avatar URL when the Gravatar
\* lookup returned one, with avatar None when the lookup raised.
C26_CreateUserAvatar ==
    [][\A r \in ReqIds, gravatar \in Gravatars :
        register_create(r, gravatar) =>
            \E id \in DOMAIN users' \ DOMAIN users :
                /\ users'[id].email = reg[r].email
                /\ users'[id].avatar = IF gravatar = "raises" THEN "None" ELSE gravatar]_vars

\* C29: the hash stored for a body the register handler prepared (the
\* password hashed by the handler, then UserRepository.create_user) is one
\* that verify_password accepts for the plaintext password.
C29_RegisterLoginRoundTrip ==
    (/\ last.op \in {"register_user", "UserRepository.create_user"}
     /\ last.pre_hashed
     /\ last.status \in {0, HTTP_201}
     /\ last.detail = "-")
    => \E id \in DOMAIN users :
          /\ users[id].email = last.email
          /\ verify_password(Plain(last.password), users[id].hashed_password)

\* C30: no two users ever share an email or a username, and of two register
\* requests for one email or one username that have both passed the checks,
\* each is answered by a created user or by a conflict.
C30_ConcurrentRegister ==
    /\ [](\A i, j \in DOMAIN users :
            (users[i].email = users[j].email \/ users[i].username = users[j].username)
                => i = j)
    /\ [][\A r1, r2 \in ReqIds, gravatar \in Gravatars :
            (/\ r1 # r2
             /\ reg[r2].pc = "checked"
             /\ reg[r1].email = reg[r2].email \/ reg[r1].username = reg[r2].username
             /\ register_create(r1, gravatar))
            => last'.status \in {HTTP_201, HTTP_409}]_vars

\* ---------------------------------------------------------------- contacts
\* C22: creating a contact whose email an existing contact has fails, with
\* ValueError from the repository and with a conflict from POST /contacts/,
\* and adds nothing; no two stored contacts ever share an email.
C22_DuplicateCreate ==
    /\ [](\A c1, c2 \in contacts : c1.email = c2.email => c1 = c2)
    /\ [][\A body \in ContactBodies :
            (\E c \in contacts : c.email = body.email) =>
                /\ repository_create_contact(body) =>
                      (last'.detail = "ValueError" /\ contacts' = contacts
                          /\ contact_seq' = contact_seq)
                /\ create_contact(body) =>
                      (last'.status \in {HTTP_400, HTTP_409} /\ contacts' = contacts
                          /\ contact_seq' = contact_seq)]_vars

\* C23: get, update and delete of an id no contact has are each answered
\* 404 "Contact not found", and the stored contacts stay as they are.
C23_MissingContact ==
    [][\A contact_id \in ContactIds :
        get_contact_by_id(contact_id) = NoContact =>
            ((\/ get_contact(contact_id)
              \/ \E body \in ContactBodies : update_contact(contact_id, body)
              \/ delete_contact(contact_id))
             => /\ last'.status = HTTP_404
                /\ last'.detail = "Contact not found"
                /\ contacts' = contacts)]_vars

\* C24: updating a contact's email to the email of another contact is
\* answered with a conflict and changes no contact.
C24_DuplicateUpdate ==
    [][\A contact_id \in ContactIds, body \in ContactBodies :
        (/\ get_contact_by_id(contact_id) # NoContact
         /\ \E c \in contacts : c.id # contact_id /\ c.email = body.email
         /\ update_contact(contact_id, body))
        => (last'.status \in {HTTP_400, HTTP_409} /\ contacts' = contacts)]_vars

\* C25: deleting a stored contact removes that contact and no other, through
\* the repository and through DELETE /contacts/{contact_id}, which succeeds;
\* a get of the id then says not found.
C25_Delete ==
    [][\A contact_id \in ContactIds :
        get_contact_by_id(contact_id) # NoContact =>
            /\ repository_delete_contact(contact_id) =>
                  contacts' = contacts \ {get_contact_by_id(contact_id)}
            /\ delete_contact(contact_id) =>
                  /\ last'.status = HTTP_204
                  /\ contacts' = contacts \ {get_contact_by_id(contact_id)}]_vars

\* C27: get_upcoming_birthdays returns, in ascending order of date, the
\* contacts whose next birthday is today, UPCOMING_DAYS days from today or in
\* between, whatever the year of birth.
C27_UpcomingBirthdays ==
    last.op = "get_upcoming_birthdays" =>
        /\ {last.returned[i] : i \in DOMAIN last.returned} =
              {c \in contacts :
                  \E d \in c.birth_date : \E k \in 0..1 :
                      /\ d + k * DAYS_PER_YEAR >= date_today
                      /\ d + k * DAYS_PER_YEAR <= date_today + UPCOMING_DAYS}
        /\ \A i, j \in DOMAIN last.returned :
              i < j => \A a \in last.returned[i].birth_date,
                          b \in last.returned[j].birth_date : a <= b

\* C28: an update of a stored contact that succeeds leaves every field the
\* body did not supply, the contact's id, and every other contact as they
\* were.
C28_UpdateFrame ==
    [][\A contact_id \in ContactIds, body \in ContactBodies :
        (update_contact(contact_id, body) /\ last'.status = HTTP_200) =>
            LET old == get_contact_by_id(contact_id) IN
            \E new \in contacts' :
                /\ new.id = old.id
                /\ \A f \in ContactFields : f \notin body.set => new[f] = old[f]
                /\ \A f \in body.set : new[f] = body[f]
                /\ contacts' \ {new} = contacts \ {old}]_vars

\* An update that left out the phone number and the birth date of a contact
\* that has both, with another contact stored.
C28_Witness ==
    /\ last.op = "update_contact"
    /\ last.status = HTTP_200
    /\ last.supplied = {"first_name", "last_name", "email"}
    /\ Cardinality(contacts) = 2
    /\ \E c \in contacts :
          c.id = last.contact_id /\ c.phone_number = "555" /\ c.birth_date # {}

====
